---- MODULE Spec2Model ----
(***************************************************************************)
(* Model of the asynchronous image-processing pipeline of                  *)
(* yokitheyo/ImageProcessor: the metadata store (images table), the local  *)
(* asset store, the task queue, UploadImage and the worker's ProcessImage  *)
(* state machine.  Strings are modelled as sequences of tokens so that     *)
(* concatenation (fmt.Sprintf, filepath.Join, error wrapping) is \o and    *)
(* the empty string is << >>.                                              *)
(***************************************************************************)
EXTENDS Integers, Sequences, FiniteSets, TLC

VARIABLES
    records,   \* images table: id -> row (nullable columns hold NULL)
    assets,    \* local asset store: relative path -> file content
    queue,     \* uncommitted task messages of the topic
    nextId,    \* number of ids generated so far by uuid.New()
    clock,     \* logical time read by time.Now() in MarkAsCompleted
    up,        \* the ingestion request running UploadImage
    del,       \* the ingestion request running DeleteImage
    get,       \* the ingestion request running GetImageFile
    wk,        \* per worker process: position in Consumer.Start / ProcessImage
    consumer,  \* per worker process: Consumer.Start's context and drop log
    lst,       \* the ingestion request running ListImages
    call       \* one call of a pure function: its arguments and its result

vars == <<records, assets, queue, nextId, clock, up, del, get, wk, consumer,
          lst, call>>

(***************************** bounds **************************************)
\* uploads in the single-worker specifications
MaxImages == 2
\* uploads in the specifications with two workers or with DeleteImage
MaxRaceImages == 1
\* the broker stops delivering once this many completions were attempted
MaxClock == 2
\* uncommitted messages on the topic when other producers write to it
MaxQueue == 2
\* GetImageFile requests served
MaxGets == 1
\* ListImages requests per behaviour
MaxLists == 1

(************************** program constants ******************************)
StatusPending == "pending"
StatusProcessing == "processing"
StatusCompleted == "completed"
StatusFailed == "failed"

ProcessingResize == "resize"
ProcessingThumbnail == "thumbnail"
ProcessingWatermark == "watermark"

ProcessingTypes == {ProcessingResize, ProcessingThumbnail, ProcessingWatermark}

ErrImageNotFound == <<"image not found">>
ErrStorageFailed == <<"storage operation failed">>
\* the asset store's dedicated not-found error
ErrObjectNotFound == <<"object not found">>

originalDir == "original"
processedDir == "processed"

DefaultResizeWidth == 800
DefaultResizeHeight == 600
DefaultThumbnailWidth == 200
DefaultThumbnailHeight == 150

\* server.max_upload_size_mb: the smallest value the configuration accepts
MaxUploadSizeMB == 1
\* NewImageHandler: the limit in bytes
maxUploadSize == MaxUploadSizeMB * 1024 * 1024

Workers == {"w1", "w2"}

(************************* strings and errors ******************************)
Nil == << >>
EmptyString == << >>

\* fmt.Errorf("prefix: %w", err)
Wrap(prefix, err) == <<prefix>> \o err

\* errors.Is(err, target): target is err or one of the errors it wraps
ErrorsIs(err, target) ==
    /\ err # Nil
    /\ \E i \in 1..Len(err), j \in 1..Len(err) : SubSeq(err, i, j) = target

\* errors produced by the database driver and the file system
ErrDB == <<"db error">>
ErrIO == <<"io error">>

\* filepath.Ext(filename): the final token when it is an extension
Ext(filename) ==
    IF Len(filename) > 1 /\ filename[Len(filename)] \in {".png", ".jpg"}
    THEN <<filename[Len(filename)]>>
    ELSE EmptyString

\* filepath.Join(dir, filename)
Join(dir, filename) == <<dir, "/">> \o filename

(***************************** domain.Image ********************************)
\* mutants of the status guard: it also lets a completed record, respectively
\* a record in processing, through
CanBeProcessed_AlsoCompleted(i) == i.Status # StatusProcessing

CanBeProcessed_AlsoProcessing(i) == i.Status # StatusCompleted

CanBeProcessed(i) == i.Status = StatusPending \/ i.Status = StatusFailed

\* mutant: the status is left as it was
MarkAsProcessing_StatusKept(i) == i

MarkAsProcessing(i) == [i EXCEPT !.Status = StatusProcessing]

MarkAsCompleted(i, processedPath, width, height, now) ==
    [i EXCEPT !.Status = StatusCompleted,
              !.ProcessedPath = processedPath,
              !.Width = width,
              !.Height = height,
              !.ProcessedAt = [Valid |-> TRUE, Time |-> now],
              !.ErrorMessage = EmptyString]

\* mutant: the message is dropped
MarkAsFailed_NoMessage(i, errMsg) == [i EXCEPT !.Status = StatusFailed]

\* sensitivity variant: the failure also forgets where the original is
MarkAsFailed_DropsPath(i, errMsg) ==
    [i EXCEPT !.Status = StatusFailed, !.ErrorMessage = errMsg,
              !.OriginalPath = EmptyString]

MarkAsFailed(i, errMsg) ==
    [i EXCEPT !.Status = StatusFailed, !.ErrorMessage = errMsg]

\* a nil *time.Time
NilTime == [Valid |-> FALSE, Time |-> 0]

\* the zero value of domain.Image
ZeroImage ==
    [ID |-> "", OriginalFilename |-> EmptyString,
     OriginalPath |-> EmptyString, ProcessedPath |-> EmptyString,
     MimeType |-> EmptyString, Size |-> 0, Width |-> 0, Height |-> 0,
     Status |-> "", ProcessingType |-> "", ErrorMessage |-> EmptyString,
     CreatedAt |-> 0, ProcessedAt |-> NilTime]

(************************* postgres.imageRepository ************************)
\* sql.NullString / sql.NullInt32 / sql.NullTime values
nullString(s) ==
    IF s = EmptyString THEN [Valid |-> FALSE, String |-> EmptyString]
    ELSE [Valid |-> TRUE, String |-> s]

\* sensitivity variant: zero is stored as a value
nullInt_StoresZero(i) == [Valid |-> TRUE, Int32 |-> i]

nullInt(i) ==
    IF i = 0 THEN [Valid |-> FALSE, Int32 |-> 0]
    ELSE [Valid |-> TRUE, Int32 |-> i]

\* the column values written by Create and by Update
RowOf(i) ==
    [id |-> i.ID,
     original_filename |-> i.OriginalFilename,
     original_path |-> i.OriginalPath,
     processed_path |-> nullString(i.ProcessedPath),
     mime_type |-> i.MimeType,
     size |-> i.Size,
     width |-> nullInt(i.Width),
     height |-> nullInt(i.Height),
     status |-> i.Status,
     processing_type |-> i.ProcessingType,
     error_message |-> nullString(i.ErrorMessage),
     created_at |-> i.CreatedAt,
     processed_at |-> i.ProcessedAt]

\* row.Scan in FindByID: NULL columns leave the zero value
ScanRow(r) ==
    [ID |-> r.id,
     OriginalFilename |-> r.original_filename,
     OriginalPath |-> r.original_path,
     ProcessedPath |-> IF r.processed_path.Valid THEN r.processed_path.String ELSE EmptyString,
     MimeType |-> r.mime_type,
     Size |-> r.size,
     Width |-> IF r.width.Valid THEN r.width.Int32 ELSE 0,
     Height |-> IF r.height.Valid THEN r.height.Int32 ELSE 0,
     Status |-> r.status,
     ProcessingType |-> r.processing_type,
     ErrorMessage |-> IF r.error_message.Valid THEN r.error_message.String ELSE EmptyString,
     CreatedAt |-> r.created_at,
     ProcessedAt |-> IF r.processed_at.Valid THEN r.processed_at ELSE NilTime]

\* INSERT INTO images
RepoCreate(tbl, i) == (i.ID :> RowOf(i)) @@ tbl

\* sensitivity variant: the processing write touches no row that is already
\* processing (UPDATE ... WHERE id = $1 AND status <> 'processing')
RepoUpdateErr_Claims(tbl, i) ==
    IF i.ID \notin DOMAIN tbl THEN ErrImageNotFound
    ELSE IF i.Status = StatusProcessing /\ tbl[i.ID].status = StatusProcessing
         THEN ErrImageNotFound
    ELSE Nil

\* UPDATE images SET ... WHERE id = $1 ; zero rows affected -> ErrImageNotFound
RepoUpdateErr(tbl, i) == IF i.ID \in DOMAIN tbl THEN Nil ELSE ErrImageNotFound

RepoUpdate(tbl, i) ==
    IF i.ID \in DOMAIN tbl
    THEN [tbl EXCEPT ![i.ID] = [RowOf(i) EXCEPT !.created_at = tbl[i.ID].created_at]]
    ELSE tbl

\* sensitivity variant: a missing row is not reported
RepoFindErr_NeverMissing(tbl, id) == Nil

\* SELECT ... WHERE id = $1
RepoFindErr(tbl, id) == IF id \in DOMAIN tbl THEN Nil ELSE ErrImageNotFound

RepoFind(tbl, id) == IF id \in DOMAIN tbl THEN ScanRow(tbl[id]) ELSE ZeroImage

(**************************** storage.localStorage **************************)
\* file contents: an uploaded byte stream, or what a save left on disk
ImageBytes == [kind |-> "image", w |-> 1000, h |-> 1000]
GarbageBytes == [kind |-> "garbage", w |-> 0, h |-> 0]
PartialBytes == [kind |-> "partial", w |-> 0, h |-> 0]
NoBytes == [kind |-> "empty", w |-> 0, h |-> 0]

\* a nil io.ReadCloser
NilFile == [kind |-> "nil", w |-> 0, h |-> 0]

JpegBytes(width, height) == [kind |-> "jpeg", w |-> width, h |-> height]

SaveFaults == {"create", "write"}

\* saveFile: os.Create, io.Copy, written == 0; fault "none" is the normal run
saveFileErr(dir, filename, reader, fault) ==
    IF fault = "create" THEN Wrap("create file", ErrIO)
    ELSE IF fault = "write" THEN Wrap("write file", ErrIO)
    ELSE IF reader = NoBytes THEN <<"no bytes written to file">>
    ELSE Nil

saveFilePath(dir, filename, reader, fault) ==
    IF saveFileErr(dir, filename, reader, fault) = Nil
    THEN Join(dir, filename) ELSE EmptyString

\* the files on disk after saveFile: os.Create truncates, io.Copy fills
saveFileStore(store, dir, filename, reader, fault) ==
    IF fault = "create" THEN store
    ELSE IF fault = "write"
         THEN (Join(dir, filename) :> PartialBytes) @@ store
         ELSE (Join(dir, filename) :> reader) @@ store

\* getFile: os.Open; fault TRUE is an open error other than not-exist
getFileErr(store, path, fault) ==
    IF path \notin DOMAIN store THEN <<"file not found: ">> \o path
    ELSE IF fault THEN Wrap("open file", ErrIO)
    ELSE Nil

\* s3Storage.getObject: fault "get" is an error of client.GetObject; obj.Stat
\* fails for a missing object and, fault "stat", for an inaccessible one
getObjectErr(store, path, fault) ==
    IF fault = "get" THEN <<"get object ">> \o path \o <<": ">> \o ErrIO
    ELSE IF path \notin DOMAIN store \/ fault = "stat"
         THEN ErrObjectNotFound \o <<": ">> \o path
    ELSE Nil

\* one GetOriginal / GetProcessed of path on the local-disk or on the
\* object-storage backend holding the current assets
ReadCall(backend, path, fault) ==
    /\ call.fn = "none"
    /\ call' = [fn |-> "read", backend |-> backend, path |-> path,
                present |-> path \in DOMAIN assets, fault |-> fault,
                err |-> IF backend = "local"
                        THEN getFileErr(assets, path, fault # "none")
                        ELSE getObjectErr(assets, path, fault)]
    /\ UNCHANGED <<records, assets, queue, nextId, clock, up, del, get, wk,
                   consumer, lst>>

\* Delete: empty path and missing file are no-ops; fault TRUE is a remove error
storageDeleteErr(store, path, fault) ==
    IF path = EmptyString THEN Nil
    ELSE IF path \notin DOMAIN store THEN Nil
    ELSE IF fault THEN <<"delete file ">> \o path \o <<": ">> \o ErrIO
    ELSE Nil

\* mutant: nothing is removed
storageDelete_Noop(store, path, fault) == store

storageDelete(store, path, fault) ==
    IF path \in DOMAIN store /\ ~fault
    THEN [p \in DOMAIN store \ {path} |-> store[p]]
    ELSE store

\* DeleteAll: both deletions attempted, lastErr returned
DeleteAllErr(store, originalPath, processedPath, fault1, fault2) ==
    LET e1 == storageDeleteErr(store, originalPath, fault1)
        s1 == storageDelete(store, originalPath, fault1)
        e2 == IF processedPath # EmptyString
              THEN storageDeleteErr(s1, processedPath, fault2) ELSE Nil
    IN IF e2 # Nil THEN e2 ELSE e1

DeleteAll(store, originalPath, processedPath, fault1, fault2) ==
    LET s1 == storageDelete(store, originalPath, fault1)
    IN IF processedPath # EmptyString
       THEN storageDelete(s1, processedPath, fault2) ELSE s1

(************************** processor.ImageProcessor ************************)
\* the processing configuration after NewImageProcessor; no watermark image
cfg ==
    [ResizeWidth |-> DefaultResizeWidth, ResizeHeight |-> DefaultResizeHeight,
     ThumbnailWidth |-> DefaultThumbnailWidth,
     ThumbnailHeight |-> DefaultThumbnailHeight]

Max(a, b) == IF a >= b THEN a ELSE b

\* imaging.Resize with one dimension 0: that dimension follows the aspect
\* ratio, rounded, at least 1
imagingResize(srcW, srcH, dstW, dstH) ==
    IF dstW < 0 \/ dstH < 0 \/ (dstW = 0 /\ dstH = 0) \/ srcW <= 0 \/ srcH <= 0
    THEN <<0, 0>>
    ELSE IF dstW = 0 THEN <<Max(1, (2 * dstH * srcW + srcH) \div (2 * srcH)), dstH>>
    ELSE IF dstH = 0 THEN <<dstW, Max(1, (2 * dstW * srcH + srcW) \div (2 * srcW))>>
    ELSE <<dstW, dstH>>

\* sensitivity variant: the image is stretched to the box
imagingFit_Stretch(srcW, srcH, maxW, maxH) ==
    IF maxW <= 0 \/ maxH <= 0 \/ srcW <= 0 \/ srcH <= 0 THEN <<0, 0>>
    ELSE <<maxW, maxH>>

\* imaging.Fit: images inside the box are cloned, others scaled down
imagingFit(srcW, srcH, maxW, maxH) ==
    IF maxW <= 0 \/ maxH <= 0 \/ srcW <= 0 \/ srcH <= 0 THEN <<0, 0>>
    ELSE IF srcW <= maxW /\ srcH <= maxH THEN <<srcW, srcH>>
    ELSE IF srcW * maxH > maxW * srcH
         THEN imagingResize(srcW, srcH, maxW, (maxW * srcH) \div srcW)
         ELSE imagingResize(srcW, srcH, (maxH * srcW) \div srcH, maxH)

\* p.resize for a processor configured with c
resize(c, srcW, srcH) ==
    IF c.ResizeWidth <= 0 \/ c.ResizeHeight <= 0 THEN <<srcW, srcH>>
    ELSE LET r == imagingFit(srcW, srcH, c.ResizeWidth, c.ResizeHeight)
         IN IF r[1] = 0 \/ r[2] = 0 THEN <<srcW, srcH>> ELSE r

\* p.thumbnail for a processor configured with c
thumbnail(c, srcW, srcH) ==
    IF c.ThumbnailWidth <= 0 \/ c.ThumbnailHeight <= 0 THEN <<srcW, srcH>>
    ELSE LET r == imagingFit(srcW, srcH, c.ThumbnailWidth, c.ThumbnailHeight)
         IN IF r[1] = 0 \/ r[2] = 0 THEN <<srcW, srcH>> ELSE r

\* NewImageProcessor: a box with a non-positive side is replaced by the default
NewImageProcessor(c) ==
    LET c1 == IF c.ResizeWidth <= 0 \/ c.ResizeHeight <= 0
              THEN [c EXCEPT !.ResizeWidth = DefaultResizeWidth,
                             !.ResizeHeight = DefaultResizeHeight]
              ELSE c
    IN IF c1.ThumbnailWidth <= 0 \/ c1.ThumbnailHeight <= 0
       THEN [c1 EXCEPT !.ThumbnailWidth = DefaultThumbnailWidth,
                       !.ThumbnailHeight = DefaultThumbnailHeight]
       ELSE c1

\* one call of p.resize or p.thumbnail on a decoded inW x inH image by a
\* processor constructed with the box boxW x boxH
FitCall(fn, inW, inH, boxW, boxH) ==
    LET c == NewImageProcessor([ResizeWidth |-> boxW, ResizeHeight |-> boxH,
                                ThumbnailWidth |-> boxW, ThumbnailHeight |-> boxH])
        out == IF fn = ProcessingResize THEN resize(c, inW, inH)
               ELSE thumbnail(c, inW, inH)
    IN /\ call.fn = "none"
       /\ call' = [fn |-> fn, inW |-> inW, inH |-> inH, boxW |-> boxW,
                   boxH |-> boxH, outW |-> out[1], outH |-> out[2]]
       /\ UNCHANGED <<records, assets, queue, nextId, clock, up, del, get, wk,
                      consumer, lst>>

\* p.watermarkImg after NewImageProcessor: cfg.WatermarkImage is "", nothing
\* is loaded
watermarkImg == NilFile

\* sensitivity variant: the image comes back at the watermark's target width
watermark_Quarter(wm, rot, width, height) ==
    [w |-> IF width \div 4 < 10 THEN 10 ELSE width \div 4, h |-> height,
     overlays |-> << >>]

\* p.watermark on a width x height image. wm is p.watermarkImg, rot the size
\* of the scaled watermark after imaging.Rotate(-45). The result has the
\* size of the returned image and the points at which imaging.Overlay
\* composited the watermark on it (none: the image itself is returned)
watermark(wm, rot, width, height) ==
    IF wm = NilFile \/ wm.w = 0 \/ wm.h = 0
    THEN [w |-> width, h |-> height, overlays |-> << >>]
    ELSE LET Isqrt(x) == CHOOSE n \in 0..x : n * n <= x /\ (n + 1) * (n + 1) > x
             Trunc(a, b) == IF a >= 0 THEN a \div b ELSE -((-a) \div b)
             rotW == rot[1]
             rotH == rot[2]
             diagLen == Isqrt(width * width + height * height) + rotW
             spacing == IF rotW \div 2 + 20 < 10 THEN 10 ELSE rotW \div 2 + 20
             step == rotW + spacing
             count == IF diagLen \div step + 2 < 1 THEN 1 ELSE diagLen \div step + 2
         IN [w |-> width, h |-> height,
             overlays |->
                 [k \in 1..(count + 1) |->
                     <<Trunc((count - (k - 1)) * (-rotW) + (k - 1) * width, count),
                       Trunc((count - (k - 1)) * (-rotH) + (k - 1) * height, count)>>]]

\* imaging.Decode succeeds on image bytes only
Decodable(bytes) == bytes.kind \in {"image", "jpeg"}

\* Process: decode, reject an empty image, dispatch on the processing type
ProcessErr(bytes, processingType) ==
    IF ~Decodable(bytes) THEN Wrap("decode image", <<"image: unknown format">>)
    ELSE IF bytes.w = 0 \/ bytes.h = 0 THEN <<"decoded image is empty">>
    ELSE IF processingType \notin ProcessingTypes THEN <<"unknown processing type">>
    ELSE Nil

Process(bytes, processingType) ==
    IF processingType = ProcessingResize THEN resize(cfg, bytes.w, bytes.h)
    ELSE IF processingType = ProcessingThumbnail THEN thumbnail(cfg, bytes.w, bytes.h)
    ELSE LET out == watermark(watermarkImg, <<0, 0>>, bytes.w, bytes.h)
         IN <<out.w, out.h>>

(******************************** inputs ***********************************)
\* uuid.New().String(): the n-th generated id
NewUUID(n) == ToString(n)

Ids == {NewUUID(n) : n \in 1..MaxImages}

Filenames == {<<"cat", ".png">>}
UploadTypes == {ProcessingThumbnail, ProcessingWatermark}
UploadReaders == {ImageBytes, GarbageBytes, NoBytes}
MimeTypePng == <<"image/png">>
UploadSize == 1

NoTask == [image_id |-> "", processing_type |-> ""]

UpIdle ==
    [pc |-> "idle", id |-> "", path |-> EmptyString, size |-> 0,
     rejected |-> "", image |-> ZeroImage, err |-> Nil, ops |-> << >>]

DelIdle ==
    [pc |-> "idle", id |-> "", image |-> ZeroImage, err |-> Nil, logged |-> Nil,
     ops |-> << >>]

GetIdle ==
    [pc |-> "idle", n |-> 0, id |-> "", useOriginal |-> FALSE,
     image |-> ZeroImage,
     file |-> NilFile, filename |-> EmptyString, err |-> Nil, ops |-> << >>]

WkIdle ==
    [pc |-> "idle", task |-> NoTask, image |-> ZeroImage, err |-> Nil,
     ops |-> << >>, file |-> NoBytes, width |-> 0, height |-> 0]

\* Consumer.Start before the signal: ctx not done, nothing dropped so far
\* exited: main of the worker process has returned
ConsumerIdle == [ctxDone |-> FALSE, dropped |-> NoTask, exited |-> FALSE]

\* no ListImages request so far
LstIdle == [pc |-> "idle", n |-> 0, limit |-> 0, offset |-> 0, effLimit |-> 0,
            images |-> << >>, err |-> Nil]

\* no function called
NoCall == [fn |-> "none"]

EmptyMap == [x \in {} |-> x]

Init ==
    /\ records = EmptyMap
    /\ assets = EmptyMap
    /\ queue = {}
    /\ nextId = 0
    /\ clock = 0
    /\ up = UpIdle
    /\ del = DelIdle
    /\ get = GetIdle
    /\ wk = [w \in Workers |-> WkIdle]
    /\ consumer = [w \in Workers |-> ConsumerIdle]
    /\ lst = LstIdle
    /\ call = NoCall

(************************* ImageUsecase.UploadImage *************************)
uniqueFilename(imageID, filename) == <<imageID>> \o Ext(filename)

NewImage(imageID, filename, size, originalPath, processingType, now) ==
    [ID |-> imageID, OriginalFilename |-> filename,
     OriginalPath |-> originalPath, ProcessedPath |-> EmptyString,
     MimeType |-> MimeTypePng, Size |-> size, Width |-> 0, Height |-> 0,
     Status |-> StatusPending, ProcessingType |-> processingType,
     ErrorMessage |-> EmptyString, CreatedAt |-> now, ProcessedAt |-> NilTime]

\* SaveOriginal succeeded: the record is built, Create comes next
UploadSaveOriginalOK(filename, size, reader, processingType) ==
    LET imageID == NewUUID(nextId + 1)
        name == uniqueFilename(imageID, filename)
        originalPath == saveFilePath(originalDir, name, reader, "none")
    IN /\ up.pc \in {"idle", "done"}
       /\ nextId < MaxImages
       /\ saveFileErr(originalDir, name, reader, "none") = Nil
       /\ nextId' = nextId + 1
       /\ assets' = saveFileStore(assets, originalDir, name, reader, "none")
       /\ up' = [pc |-> "create", id |-> imageID, path |-> originalPath,
                 size |-> size, rejected |-> "",
                 image |-> NewImage(imageID, filename, size, originalPath,
                                    processingType, clock),
                 err |-> Nil, ops |-> << <<"SaveOriginal", Join(originalDir, name)>> >>]
       /\ UNCHANGED <<records, queue, clock, del, wk, get, consumer, lst, call>>

\* SaveOriginal failed: UploadImage returns (nil, "save original: ...")
UploadSaveOriginalFail(filename, size, reader, processingType, fault) ==
    LET imageID == NewUUID(nextId + 1)
        name == uniqueFilename(imageID, filename)
        e == saveFileErr(originalDir, name, reader, fault)
    IN /\ up.pc \in {"idle", "done"}
       /\ nextId < MaxImages
       /\ e # Nil
       /\ nextId' = nextId + 1
       /\ assets' = saveFileStore(assets, originalDir, name, reader, fault)
       /\ up' = [pc |-> "done", id |-> imageID, path |-> EmptyString,
                 size |-> size, rejected |-> "",
                 image |-> ZeroImage, err |-> Wrap("save original", e),
                 ops |-> << <<"SaveOriginal", Join(originalDir, name)>> >>]
       /\ UNCHANGED <<records, queue, clock, del, wk, get, consumer, lst, call>>

UploadCreateOK ==
    /\ up.pc = "create"
    /\ records' = RepoCreate(records, up.image)
    /\ up' = [up EXCEPT !.pc = "publish",
                        !.ops = Append(@, <<"Create", <<up.image.ID>> >>)]
    /\ UNCHANGED <<assets, queue, nextId, clock, del, wk, get, consumer, lst, call>>

\* sensitivity variant: the task is published although the insert failed
UploadCreateFail_Publishes(delFault) ==
    /\ up.pc = "create"
    /\ assets' = storageDelete(assets, up.path, delFault)
    /\ up' = [up EXCEPT !.pc = "publish",
                        !.ops = Append(@, <<"CreateFailed", <<up.image.ID>> >>)]
    /\ UNCHANGED <<records, queue, nextId, clock, del, wk, get, consumer, lst, call>>

\* Create failed: the original is deleted best-effort, the error returned
UploadCreateFail(delFault) ==
    /\ up.pc = "create"
    /\ assets' = storageDelete(assets, up.path, delFault)
    /\ up' = [up EXCEPT !.pc = "done", !.image = ZeroImage,
                        !.err = Wrap("create image", Wrap("create image", ErrDB)),
                        !.ops = @ \o << <<"CreateFailed", <<up.image.ID>> >>,
                                        <<IF storageDeleteErr(assets, up.path, delFault) = Nil
                                          THEN "Delete" ELSE "DeleteFailed",
                                          up.path>> >>]
    /\ UNCHANGED <<records, queue, nextId, clock, del, wk, get, consumer, lst, call>>

\* Producer.PublishProcessingTask
TaskOf(imageID, processingType) ==
    [image_id |-> imageID, processing_type |-> processingType]

UploadPublishOK ==
    /\ up.pc = "publish"
    /\ queue' = queue \cup {TaskOf(up.image.ID, up.image.ProcessingType)}
    /\ up' = [up EXCEPT !.pc = "done",
                        !.ops = Append(@, <<"Publish", <<up.image.ID>> >>)]
    /\ UNCHANGED <<records, assets, nextId, clock, del, wk, get, consumer, lst, call>>

\* mutant: a publish failure aborts the upload with an error
UploadPublishFail_Abort ==
    /\ up.pc = "publish"
    /\ up' = [up EXCEPT !.pc = "done", !.image = ZeroImage,
                        !.err = Wrap("publish task", <<"kafka: send failed">>),
                        !.ops = Append(@, <<"PublishFailed", <<up.image.ID>> >>)]
    /\ UNCHANGED <<records, assets, queue, nextId, clock, del, wk, get, consumer, lst, call>>

\* publish failure is logged only
UploadPublishFail ==
    /\ up.pc = "publish"
    /\ up' = [up EXCEPT !.pc = "done",
                        !.ops = Append(@, <<"PublishFailed", <<up.image.ID>> >>)]
    /\ UNCHANGED <<records, assets, queue, nextId, clock, del, wk, get, consumer, lst, call>>

(************************* ImageHandler.UploadImage *************************)
\* sensitivity variant: the size check never rejects
FileTooLarge_Never(size) == FALSE

\* header.Size > h.maxUploadSize
FileTooLarge(size) == size > maxUploadSize

\* declared sizes of incoming requests: small, exactly the limit, one above
HandlerSizes == {UploadSize, maxUploadSize, maxUploadSize + 1}

\* 400 file_too_large: the handler returns before calling the service
HandlerUploadTooLarge(filename, size) ==
    /\ up.pc \in {"idle", "done"}
    /\ FileTooLarge(size)
    /\ up' = [UpIdle EXCEPT !.pc = "done", !.size = size,
                            !.rejected = "file_too_large"]
    /\ UNCHANGED <<records, assets, queue, nextId, clock, del, wk, get, consumer, lst, call>>

\* the request passed the size check: h.service.UploadImage is called
HandlerUploadAccepted(filename, size, reader, processingType, fault) ==
    /\ ~FileTooLarge(size)
    /\ \/ UploadSaveOriginalOK(filename, size, reader, processingType)
       \/ UploadSaveOriginalFail(filename, size, reader, processingType, fault)

(************************ ImageUsecase.GetImageFile *************************)
\* sensitivity variant: every record counts as processed
IsProcessed_Always(i) == TRUE

IsProcessed(i) == i.Status = StatusCompleted

GetFindOK(id, useOriginal) ==
    /\ get.pc \in {"idle", "done"}
    /\ get.n < MaxGets
    /\ RepoFindErr(records, id) = Nil
    /\ get' = [GetIdle EXCEPT !.pc = "fetch", !.n = get.n + 1, !.id = id,
                              !.useOriginal = useOriginal,
                              !.image = RepoFind(records, id),
                              !.ops = <<"FindByID">>]
    /\ UNCHANGED <<records, assets, queue, nextId, clock, up, del, wk, consumer, lst, call>>

GetFindFail(id, useOriginal) ==
    /\ get.pc \in {"idle", "done"}
    /\ get.n < MaxGets
    /\ get' = [GetIdle EXCEPT !.pc = "done", !.n = get.n + 1, !.id = id,
                              !.useOriginal = useOriginal,
                              !.err = IF RepoFindErr(records, id) # Nil
                                      THEN RepoFindErr(records, id)
                                      ELSE Wrap("find image", ErrDB),
                              !.ops = <<"FindByID">>]
    /\ UNCHANGED <<records, assets, queue, nextId, clock, up, del, wk, consumer, lst, call>>

\* useOriginal: GetOriginal; only ErrObjectNotFound is turned into an error,
\* every other outcome reaches `return file, filename, nil`
GetOriginalFile(fault) ==
    LET path == get.image.OriginalPath
        e == getFileErr(assets, path, fault)
        notFound == e # Nil /\ ErrorsIs(e, ErrObjectNotFound)
    IN /\ get.pc = "fetch"
       /\ get.useOriginal
       /\ get' = [get EXCEPT
                    !.pc = "done",
                    !.file = IF e = Nil THEN assets[path] ELSE NilFile,
                    !.filename = IF notFound THEN EmptyString
                                 ELSE get.image.OriginalFilename,
                    !.err = IF notFound THEN ErrImageNotFound ELSE Nil,
                    !.ops = Append(@, IF e = Nil THEN "GetOriginal"
                                      ELSE IF path \notin DOMAIN assets
                                           THEN "GetOriginalMissing"
                                           ELSE "GetOriginalFailed")]
       /\ UNCHANGED <<records, assets, queue, nextId, clock, up, del, wk, consumer, lst, call>>

\* !useOriginal and the record is not completed
GetNotProcessed ==
    /\ get.pc = "fetch"
    /\ ~get.useOriginal
    /\ ~IsProcessed(get.image)
    /\ get' = [get EXCEPT !.pc = "done", !.err = <<"image not processed yet">>]
    /\ UNCHANGED <<records, assets, queue, nextId, clock, up, del, wk, consumer, lst, call>>

\* !useOriginal on a completed record: GetProcessed, then the download name
GetProcessedFile(fault) ==
    LET path == get.image.ProcessedPath
        e == getFileErr(assets, path, fault)
        name == get.image.OriginalFilename
        baseName == SubSeq(name, 1, Len(name) - Len(Ext(name)))
    IN /\ get.pc = "fetch"
       /\ ~get.useOriginal
       /\ IsProcessed(get.image)
       /\ get' = [get EXCEPT
                    !.pc = "done",
                    !.file = IF e = Nil THEN assets[path] ELSE NilFile,
                    !.filename = IF e # Nil THEN EmptyString
                                 ELSE baseName
                                      \o <<"_", get.image.ProcessingType>>
                                      \o Ext(path),
                    !.err = IF e = Nil THEN Nil
                            ELSE IF ErrorsIs(e, ErrObjectNotFound)
                                 THEN ErrImageNotFound ELSE e,
                    !.ops = Append(@, "GetProcessed")]
       /\ UNCHANGED <<records, assets, queue, nextId, clock, up, del, wk, consumer, lst, call>>

(************************* ImageUsecase.ListImages **************************)
\* sensitivity variant: the upper bound is not applied
ListLimit_NoCap(limit) == IF limit <= 0 THEN 10 ELSE limit

\* the limit ListImages hands to repo.List
ListLimit(limit) ==
    IF limit <= 0 THEN 10 ELSE IF limit > 100 THEN 100 ELSE limit

\* SELECT ... ORDER BY created_at DESC LIMIT $1 OFFSET $2 and scanImages:
\* every result the query may return (rows with equal created_at in any order)
RepoList(tbl, limit, offset) ==
    LET n == Cardinality(DOMAIN tbl)
        orders == {s \in [1..n -> DOMAIN tbl] :
                     \A i, j \in 1..n :
                        i < j => /\ s[i] # s[j]
                                 /\ tbl[s[i]].created_at >= tbl[s[j]].created_at}
        rest == IF n - offset < 0 THEN 0 ELSE n - offset
        len == IF limit < rest THEN limit ELSE rest
    IN {[k \in 1..len |-> ScanRow(tbl[s[offset + k]])] : s \in orders}

\* one ListImages request; fail: the query fails and the error is returned as is
ListImages(limit, offset, fail) ==
    /\ lst.n < MaxLists
    /\ \E images \in RepoList(records, ListLimit(limit), offset) :
          lst' = [pc |-> "done", n |-> lst.n + 1, limit |-> limit,
                  offset |-> offset, effLimit |-> ListLimit(limit),
                  images |-> IF fail THEN << >> ELSE images,
                  err |-> IF fail THEN Wrap("list images", ErrDB) ELSE Nil]
    /\ UNCHANGED <<records, assets, queue, nextId, clock, up, del, get, wk,
                   consumer, call>>

\* time passes between two readings of time.Now()
Tick ==
    /\ clock < MaxClock
    /\ clock' = clock + 1
    /\ UNCHANGED <<records, assets, queue, nextId, up, del, get, wk, consumer,
                   lst, call>>

(************************* ImageUsecase.DeleteImage *************************)
DeleteFindOK(id) ==
    /\ del.pc \in {"idle", "done"}
    /\ RepoFindErr(records, id) = Nil
    /\ del' = [pc |-> "deleteAll", id |-> id, image |-> RepoFind(records, id),
               err |-> Nil, logged |-> Nil, ops |-> <<"FindByID">>]
    /\ UNCHANGED <<records, assets, queue, nextId, clock, up, wk, get, consumer, lst, call>>

DeleteFindFail(id) ==
    /\ del.pc \in {"idle", "done"}
    /\ del' = [pc |-> "done", id |-> id, image |-> ZeroImage,
               err |-> IF RepoFindErr(records, id) # Nil
                       THEN RepoFindErr(records, id)
                       ELSE Wrap("find image", ErrDB),
               logged |-> Nil, ops |-> <<"FindByID">>]
    /\ UNCHANGED <<records, assets, queue, nextId, clock, up, wk, get, consumer, lst, call>>

\* sensitivity variant: a failed asset deletion aborts DeleteImage
DeleteFiles_Aborts(fault1, fault2) ==
    LET e == DeleteAllErr(assets, del.image.OriginalPath,
                          del.image.ProcessedPath, fault1, fault2)
    IN /\ del.pc = "deleteAll"
       /\ assets' = DeleteAll(assets, del.image.OriginalPath,
                              del.image.ProcessedPath, fault1, fault2)
       /\ del' = [del EXCEPT !.pc = IF e = Nil THEN "repoDelete" ELSE "done",
                             !.err = e, !.logged = e,
                             !.ops = Append(@, "DeleteAll")]
       /\ UNCHANGED <<records, queue, nextId, clock, up, wk, get, consumer, lst, call>>

\* storage.DeleteAll; its error is logged only (del.logged)
DeleteFiles(fault1, fault2) ==
    /\ del.pc = "deleteAll"
    /\ assets' = DeleteAll(assets, del.image.OriginalPath,
                           del.image.ProcessedPath, fault1, fault2)
    /\ del' = [del EXCEPT !.pc = "repoDelete",
                          !.logged = DeleteAllErr(assets, del.image.OriginalPath,
                                                  del.image.ProcessedPath,
                                                  fault1, fault2),
                          !.ops = Append(@, "DeleteAll")]
    /\ UNCHANGED <<records, queue, nextId, clock, up, wk, get, consumer, lst, call>>

DeleteRecordOK ==
    /\ del.pc = "repoDelete"
    /\ del.id \in DOMAIN records
    /\ records' = [i \in DOMAIN records \ {del.id} |-> records[i]]
    /\ del' = [del EXCEPT !.pc = "done", !.ops = Append(@, "Delete")]
    /\ UNCHANGED <<assets, queue, nextId, clock, up, wk, get, consumer, lst, call>>

DeleteRecordFail ==
    /\ del.pc = "repoDelete"
    /\ del' = [del EXCEPT !.pc = "done", !.ops = Append(@, "Delete"),
                          !.err = IF del.id \in DOMAIN records
                                  THEN Wrap("delete image", ErrDB)
                                  ELSE ErrImageNotFound]
    /\ UNCHANGED <<records, assets, queue, nextId, clock, up, wk, get, consumer, lst, call>>

(*************** kafka.Consumer.Start / ImageWorker / ProcessImage **********)
\* json.Unmarshal succeeded but image_id or processing_type is empty
MalformedTask(task) == task.image_id = "" \/ task.processing_type = ""

\* sensitivity variant: the task's processing type is not validated
InvalidTaskType_Never(task) == FALSE

\* HandleProcessingTask: the task's processing type is validated
InvalidTaskType(task) == task.processing_type \notin ProcessingTypes

\* json.Unmarshal(msg.Value, &task): a value that is no JSON object fails
UnmarshalErr(m) ==
    IF "raw" \in DOMAIN m THEN <<"invalid character">> ELSE Nil

Unmarshal(m) == IF UnmarshalErr(m) # Nil THEN NoTask ELSE m

\* sensitivity variant: nothing is dropped
Dropped_Never(m) == FALSE

\* the two `continue` branches before the handler is called
Dropped(m) == UnmarshalErr(m) # Nil \/ MalformedTask(Unmarshal(m))

\* one iteration up to the handler call: the context is not done, a message
\* is fetched; undecodable and malformed ones are dropped, an invalid type
\* fails the handler before ProcessImage is called
ConsumerFetch(w, m) ==
    LET task == Unmarshal(m)
    IN /\ wk[w].pc = "idle"
       /\ ~consumer[w].ctxDone
       /\ m \in queue
       /\ clock < MaxClock
       /\ wk' = [wk EXCEPT ![w] =
                   IF Dropped(m) THEN WkIdle
                   ELSE IF InvalidTaskType(task)
                        THEN [WkIdle EXCEPT !.pc = "handled", !.task = task,
                                            !.err = <<"invalid processing type">>]
                        ELSE [WkIdle EXCEPT !.pc = "find", !.task = task]]
       /\ consumer' = [consumer EXCEPT ![w].dropped =
                         IF Dropped(m) THEN m ELSE @]
       /\ UNCHANGED <<records, assets, queue, nextId, clock, up, del, get, lst, call>>

\* the signal handler cancels the context of Consumer.Start
Cancel(w) ==
    /\ ~consumer[w].ctxDone
    /\ consumer' = [consumer EXCEPT ![w].ctxDone = TRUE]
    /\ UNCHANGED <<records, assets, queue, nextId, clock, up, del, get, wk, lst, call>>

\* sensitivity variant: cancellation ends the loop wherever it is
ConsumerStop_Preempts(w) ==
    /\ wk[w].pc # "stopped"
    /\ consumer[w].ctxDone
    /\ wk' = [wk EXCEPT ![w] = [WkIdle EXCEPT !.pc = "stopped"]]
    /\ UNCHANGED <<records, assets, queue, nextId, clock, up, del, get, consumer, lst, call>>

\* case <-ctx.Done(): return nil
ConsumerStop(w) ==
    /\ wk[w].pc = "idle"
    /\ consumer[w].ctxDone
    /\ wk' = [wk EXCEPT ![w] = [WkIdle EXCEPT !.pc = "stopped"]]
    /\ UNCHANGED <<records, assets, queue, nextId, clock, up, del, get, consumer, lst, call>>

\* messages other producers put on the topic
ForeignMessages ==
    {[raw |-> "not json"],
     TaskOf("", ProcessingResize),
     TaskOf(NewUUID(1), ""),
     TaskOf(NewUUID(1), ProcessingResize),
     TaskOf(NewUUID(1), "grayscale")}

\* Producer.Send by another producer, or any write to the topic
ForeignPublish(m) ==
    /\ m \notin queue
    /\ Cardinality(queue) < MaxQueue
    /\ queue' = queue \cup {m}
    /\ UNCHANGED <<records, assets, nextId, clock, up, del, get, wk, consumer, lst, call>>

FindByIDOK(w) ==
    /\ wk[w].pc = "find"
    /\ RepoFindErr(records, wk[w].task.image_id) = Nil
    /\ wk' = [wk EXCEPT ![w].pc = "guard",
                        ![w].image = RepoFind(records, wk[w].task.image_id),
                        ![w].ops = Append(@, "FindByID")]
    /\ UNCHANGED <<records, assets, queue, nextId, clock, up, del, get, consumer, lst, call>>

FindByIDFail(w) ==
    /\ wk[w].pc = "find"
    /\ wk' = [wk EXCEPT ![w].pc = "handled",
                        ![w].ops = Append(@, "FindByID"),
                        ![w].err =
                            IF RepoFindErr(records, wk[w].task.image_id) # Nil
                            THEN Wrap("find image", ErrImageNotFound)
                            ELSE Wrap("find image", Wrap("find image", ErrDB))]
    /\ UNCHANGED <<records, assets, queue, nextId, clock, up, del, get, consumer, lst, call>>

\* the status guard: nothing to do, ProcessImage returns nil
GuardSkip(w) ==
    /\ wk[w].pc = "guard"
    /\ ~CanBeProcessed(wk[w].image)
    /\ wk' = [wk EXCEPT ![w].pc = "handled", ![w].err = Nil]
    /\ UNCHANGED <<records, assets, queue, nextId, clock, up, del, get, consumer, lst, call>>

UpdateProcessingOK(w) ==
    LET image == MarkAsProcessing(wk[w].image)
    IN /\ wk[w].pc = "guard"
       /\ CanBeProcessed(wk[w].image)
       /\ RepoUpdateErr(records, image) = Nil
       /\ records' = RepoUpdate(records, image)
       /\ wk' = [wk EXCEPT ![w].pc = "getOriginal", ![w].image = image,
                           ![w].ops = Append(@, "UpdateProcessing")]
       /\ UNCHANGED <<assets, queue, nextId, clock, up, del, get, consumer, lst, call>>

\* sensitivity variant: the failed write is ignored and the attempt goes on
UpdateProcessingFail_Continues(w) ==
    LET image == MarkAsProcessing(wk[w].image)
    IN /\ wk[w].pc = "guard"
       /\ CanBeProcessed(wk[w].image)
       /\ wk' = [wk EXCEPT ![w].pc = "getOriginal", ![w].image = image,
                           ![w].ops = Append(@, "UpdateProcessingFailed")]
       /\ UNCHANGED <<records, assets, queue, nextId, clock, up, del, get,
                      consumer, lst, call>>

\* Update failed: ProcessImage returns "update status to processing: ..."
UpdateProcessingFail(w) ==
    LET image == MarkAsProcessing(wk[w].image)
    IN /\ wk[w].pc = "guard"
       /\ CanBeProcessed(wk[w].image)
       /\ wk' = [wk EXCEPT ![w].pc = "handled", ![w].image = image,
                           ![w].ops = Append(@, "UpdateProcessingFailed"),
                           ![w].err =
                               Wrap("update status to processing",
                                    IF RepoUpdateErr(records, image) # Nil
                                    THEN RepoUpdateErr(records, image)
                                    ELSE Wrap("update image", ErrDB))]
       /\ UNCHANGED <<records, assets, queue, nextId, clock, up, del, get, consumer, lst, call>>

GetOriginalOK(w) ==
    /\ wk[w].pc = "getOriginal"
    /\ getFileErr(assets, wk[w].image.OriginalPath, FALSE) = Nil
    /\ wk' = [wk EXCEPT ![w].pc = "transform",
                        ![w].file = assets[wk[w].image.OriginalPath],
                        ![w].ops = Append(@, "GetOriginal")]
    /\ UNCHANGED <<records, assets, queue, nextId, clock, up, del, get, consumer, lst, call>>

GetOriginalFail(w) ==
    LET e == getFileErr(assets, wk[w].image.OriginalPath, TRUE)
    IN /\ wk[w].pc = "getOriginal"
       /\ wk' = [wk EXCEPT ![w].pc = "updFailed",
                           ![w].image = MarkAsFailed(@,
                               <<"failed to get original file: ">> \o e),
                           ![w].err = Wrap("get original file", e),
                           ![w].ops = Append(@, "GetOriginal")]
       /\ UNCHANGED <<records, assets, queue, nextId, clock, up, del, get, consumer, lst, call>>

TransformFaults == {"seek", "encode"}

\* ProcessImage between GetOriginal and SaveProcessed: decode, seek, Process,
\* dimension check, encode, buf.Len() == 0. stage "" means every stage passed
TransformStage(bytes, processingType, fault) ==
    IF ~Decodable(bytes) THEN "decode"
    ELSE IF bytes.w = 0 \/ bytes.h = 0 THEN "empty original"
    ELSE IF fault = "seek" THEN "seek"
    ELSE IF ProcessErr(bytes, processingType) # Nil THEN "process"
    ELSE IF Process(bytes, processingType)[1] = 0
            \/ Process(bytes, processingType)[2] = 0 THEN "empty processed"
    ELSE IF fault = "encode" THEN "encode"
    ELSE IF JpegBytes(Process(bytes, processingType)[1],
                      Process(bytes, processingType)[2]) = NoBytes
         THEN "empty buffer"
    ELSE ""

\* the message handed to MarkAsFailed at each stage
StageMessage(stage, bytes, processingType) ==
    IF stage = "decode" THEN <<"failed to decode original file: ", "image: unknown format">>
    ELSE IF stage = "empty original" THEN <<"original image is empty">>
    ELSE IF stage = "seek" THEN <<"failed to seek original file: ">> \o ErrIO
    ELSE IF stage = "process"
         THEN <<"processing failed: ">> \o ProcessErr(bytes, processingType)
    ELSE IF stage = "empty processed" THEN <<"processed image is empty">>
    ELSE IF stage = "encode" THEN <<"encoding failed: ">> \o ErrIO
    ELSE <<"empty buffer after encoding">>

\* the error ProcessImage returns at each stage
StageError(stage, bytes, processingType) ==
    IF stage = "decode" THEN Wrap("decode original image", <<"image: unknown format">>)
    ELSE IF stage = "empty original" THEN <<"original image is empty">>
    ELSE IF stage = "seek" THEN Wrap("seek original file", ErrIO)
    ELSE IF stage = "process"
         THEN Wrap("process image", ProcessErr(bytes, processingType))
    ELSE IF stage = "empty processed" THEN <<"processed image is empty">>
    ELSE IF stage = "encode" THEN Wrap("encode image", ErrIO)
    ELSE <<"empty buffer after encoding">>

\* sensitivity variant: the transformation follows the task's processing_type
TransformOK_TaskType(w) ==
    LET type == wk[w].task.processing_type
        dims == Process(wk[w].file, type)
    IN /\ wk[w].pc = "transform"
       /\ TransformStage(wk[w].file, type, "none") = ""
       /\ wk' = [wk EXCEPT ![w].pc = "saveProcessed",
                           ![w].width = dims[1], ![w].height = dims[2]]
       /\ UNCHANGED <<records, assets, queue, nextId, clock, up, del, get, consumer, lst, call>>

TransformOK(w) ==
    LET type == wk[w].image.ProcessingType
        dims == Process(wk[w].file, type)
    IN /\ wk[w].pc = "transform"
       /\ TransformStage(wk[w].file, type, "none") = ""
       /\ wk' = [wk EXCEPT ![w].pc = "saveProcessed",
                           ![w].width = dims[1], ![w].height = dims[2]]
       /\ UNCHANGED <<records, assets, queue, nextId, clock, up, del, get, consumer, lst, call>>

TransformFail(w, fault) ==
    LET type == wk[w].image.ProcessingType
        stage == TransformStage(wk[w].file, type, fault)
    IN /\ wk[w].pc = "transform"
       /\ stage # ""
       /\ wk' = [wk EXCEPT ![w].pc = "updFailed",
                           ![w].image = MarkAsFailed(@,
                               StageMessage(stage, wk[w].file, type)),
                           ![w].err = StageError(stage, wk[w].file, type)]
       /\ UNCHANGED <<records, assets, queue, nextId, clock, up, del, get, consumer, lst, call>>

\* mutant: the processed file keeps the extension of the original
processedFilename_OriginalExt(image) ==
    <<image.ID, "_", image.ProcessingType>> \o Ext(image.OriginalFilename)

\* fmt.Sprintf("%s_%s.jpg", image.ID, image.ProcessingType)
processedFilename(image) == <<image.ID, "_", image.ProcessingType, ".jpg">>

SaveProcessedOK(w) ==
    LET name == processedFilename(wk[w].image)
        buf == JpegBytes(wk[w].width, wk[w].height)
    IN /\ wk[w].pc = "saveProcessed"
       /\ assets' = saveFileStore(assets, processedDir, name, buf, "none")
       /\ wk' = [wk EXCEPT ![w].pc = "updCompleted",
                           ![w].ops = Append(@, "SaveProcessed")]
       /\ UNCHANGED <<records, queue, nextId, clock, up, del, get, consumer, lst, call>>

SaveProcessedFail(w, fault) ==
    LET name == processedFilename(wk[w].image)
        buf == JpegBytes(wk[w].width, wk[w].height)
        e == saveFileErr(processedDir, name, buf, fault)
    IN /\ wk[w].pc = "saveProcessed"
       /\ e # Nil
       /\ assets' = saveFileStore(assets, processedDir, name, buf, fault)
       /\ wk' = [wk EXCEPT ![w].pc = "updFailed",
                           ![w].image = MarkAsFailed(@,
                               <<"failed to save processed file: ">> \o e),
                           ![w].err = Wrap("save processed file", e),
                           ![w].ops = Append(@, "SaveProcessed")]
       /\ UNCHANGED <<records, queue, nextId, clock, up, del, get, consumer, lst, call>>

\* sensitivity variant: the bare filename is recorded, not the returned path
CompletedImage_FilenameOnly(w) ==
    MarkAsCompleted(wk[w].image, processedFilename(wk[w].image),
                    wk[w].width, wk[w].height, clock + 1)

\* MarkAsCompleted with the path SaveProcessed returned, then Update
CompletedImage(w) ==
    MarkAsCompleted(wk[w].image,
                    saveFilePath(processedDir, processedFilename(wk[w].image),
                                 JpegBytes(wk[w].width, wk[w].height), "none"),
                    wk[w].width, wk[w].height, clock + 1)

UpdateCompletedOK(w) ==
    /\ wk[w].pc = "updCompleted"
    /\ RepoUpdateErr(records, CompletedImage(w)) = Nil
    /\ clock' = clock + 1
    /\ records' = RepoUpdate(records, CompletedImage(w))
    /\ wk' = [wk EXCEPT ![w].pc = "handled", ![w].image = CompletedImage(w),
                        ![w].err = Nil,
                        ![w].ops = Append(@, "UpdateCompleted")]
    /\ UNCHANGED <<assets, queue, nextId, up, del, get, consumer, lst, call>>

UpdateCompletedFail(w) ==
    /\ wk[w].pc = "updCompleted"
    /\ clock' = clock + 1
    /\ wk' = [wk EXCEPT ![w].pc = "handled", ![w].image = CompletedImage(w),
                        ![w].ops = Append(@, "UpdateCompletedFailed"),
                        ![w].err =
                            Wrap("update status to completed",
                                 IF RepoUpdateErr(records, CompletedImage(w)) # Nil
                                 THEN RepoUpdateErr(records, CompletedImage(w))
                                 ELSE Wrap("update image", ErrDB))]
    /\ UNCHANGED <<records, assets, queue, nextId, up, del, get, consumer, lst, call>>

\* the best-effort Update after MarkAsFailed; its error is discarded
UpdateFailedOK(w) ==
    /\ wk[w].pc = "updFailed"
    /\ RepoUpdateErr(records, wk[w].image) = Nil
    /\ records' = RepoUpdate(records, wk[w].image)
    /\ wk' = [wk EXCEPT ![w].pc = "handled",
                        ![w].ops = Append(@, "UpdateFailed")]
    /\ UNCHANGED <<assets, queue, nextId, clock, up, del, get, consumer, lst, call>>

UpdateFailedFail(w) ==
    /\ wk[w].pc = "updFailed"
    /\ wk' = [wk EXCEPT ![w].pc = "handled",
                        ![w].ops = Append(@, "UpdateFailedFailed")]
    /\ UNCHANGED <<records, assets, queue, nextId, clock, up, del, get, consumer, lst, call>>

\* handler returned nil: the message is committed
CommitOK(w) ==
    /\ wk[w].pc = "handled"
    /\ wk[w].err = Nil
    /\ queue' = queue \ {wk[w].task}
    /\ wk' = [wk EXCEPT ![w] = WkIdle]
    /\ UNCHANGED <<records, assets, nextId, clock, up, del, get, consumer, lst, call>>

CommitFail(w) ==
    /\ wk[w].pc = "handled"
    /\ wk[w].err = Nil
    /\ wk' = [wk EXCEPT ![w] = WkIdle]
    /\ UNCHANGED <<records, assets, queue, nextId, clock, up, del, get, consumer, lst, call>>

\* sensitivity variant: the message is committed although the handler failed
NoCommit_Commits(w) ==
    /\ wk[w].pc = "handled"
    /\ wk[w].err # Nil
    /\ queue' = queue \ {wk[w].task}
    /\ wk' = [wk EXCEPT ![w] = WkIdle]
    /\ UNCHANGED <<records, assets, nextId, clock, up, del, get, consumer, lst, call>>

\* handler returned an error: logged, not committed, next iteration
NoCommit(w) ==
    /\ wk[w].pc = "handled"
    /\ wk[w].err # Nil
    /\ wk' = [wk EXCEPT ![w] = WkIdle]
    /\ UNCHANGED <<records, assets, queue, nextId, clock, up, del, get, consumer, lst, call>>

(****************************** specifications ******************************)
UploadNext ==
    \/ \E f \in Filenames, r \in UploadReaders, t \in UploadTypes :
          UploadSaveOriginalOK(f, UploadSize, r, t)
    \/ \E f \in Filenames, r \in UploadReaders, t \in UploadTypes,
          fault \in SaveFaults \cup {"none"} :
          UploadSaveOriginalFail(f, UploadSize, r, t, fault)
    \/ UploadCreateOK
    \/ \E delFault \in BOOLEAN : UploadCreateFail(delFault)
    \/ UploadPublishOK
    \/ UploadPublishFail

DeleteNext ==
    \/ \E id \in Ids : DeleteFindOK(id)
    \/ \E id \in Ids : DeleteFindFail(id)
    \/ \E f1 \in BOOLEAN, f2 \in BOOLEAN : DeleteFiles(f1, f2)
    \/ DeleteRecordOK
    \/ DeleteRecordFail

WorkerNext(w) ==
    \/ \E m \in queue : ConsumerFetch(w, m)
    \/ FindByIDOK(w)
    \/ FindByIDFail(w)
    \/ GuardSkip(w)
    \/ UpdateProcessingOK(w)
    \/ UpdateProcessingFail(w)
    \/ GetOriginalOK(w)
    \/ GetOriginalFail(w)
    \/ TransformOK(w)
    \/ \E fault \in TransformFaults \cup {"none"} : TransformFail(w, fault)
    \/ SaveProcessedOK(w)
    \/ \E fault \in SaveFaults : SaveProcessedFail(w, fault)
    \/ UpdateCompletedOK(w)
    \/ UpdateCompletedFail(w)
    \/ UpdateFailedOK(w)
    \/ UpdateFailedFail(w)
    \/ CommitOK(w)
    \/ CommitFail(w)
    \/ NoCommit(w)

\* ingestion and two workers consuming the same topic, every fault possible
Next ==
    \/ UploadNext /\ nextId' <= MaxRaceImages
    \/ \E w \in Workers : WorkerNext(w)

Spec == Init /\ [][Next]_vars

\* ingestion and one worker handling deliveries one at a time
NextSingle ==
    \/ UploadNext
    \/ WorkerNext("w1")

SpecSingle == Init /\ [][NextSingle]_vars

\* ingestion, DeleteImage and one worker
NextDelete ==
    \/ UploadNext /\ nextId' <= MaxRaceImages
    \/ DeleteNext
    \/ WorkerNext("w1")

SpecDelete == Init /\ [][NextDelete]_vars

\* Consumer.Start of one worker process, with its exit on cancellation
ConsumerNext(w) ==
    \/ WorkerNext(w)
    \/ ConsumerStop(w)

\* ingestion, foreign messages on the topic, one consumer loop and its signal
NextConsumer ==
    \/ UploadNext /\ nextId' <= MaxRaceImages
    \/ \E m \in ForeignMessages : ForeignPublish(m)
    \/ ConsumerNext("w1")
    \/ Cancel("w1")

SpecConsumer ==
    /\ Init
    /\ [][NextConsumer]_vars
    /\ WF_vars(ConsumerNext("w1"))

\* uploads of files with any extension and any processing type, one worker
NamingFilenames == {<<"cat", ".png">>, <<"dog", ".jpg">>, <<"scan">>}

UploadNaming ==
    \/ \E f \in NamingFilenames, t \in ProcessingTypes :
          UploadSaveOriginalOK(f, UploadSize, ImageBytes, t)
    \/ UploadCreateOK
    \/ UploadPublishOK

NextNaming ==
    \/ UploadNaming /\ nextId' <= MaxRaceImages
    \/ WorkerNext("w1")

SpecNaming == Init /\ [][NextNaming]_vars

\* the HTTP upload endpoint in front of UploadImage, one worker
HandlerNext ==
    \/ \E f \in Filenames, size \in HandlerSizes : HandlerUploadTooLarge(f, size)
    \/ \E f \in Filenames, size \in HandlerSizes, r \in UploadReaders,
          t \in UploadTypes, fault \in SaveFaults \cup {"none"} :
          HandlerUploadAccepted(f, size, r, t, fault)
    \/ UploadCreateOK
    \/ \E delFault \in BOOLEAN : UploadCreateFail(delFault)
    \/ UploadPublishOK
    \/ UploadPublishFail

NextHandler ==
    \/ HandlerNext /\ nextId' <= MaxRaceImages
    \/ WorkerNext("w1")

SpecHandler == Init /\ [][NextHandler]_vars

\* storage, metadata store, queue and transformation never fail; one worker
UploadReliable ==
    \/ \E f \in Filenames, t \in UploadTypes :
          UploadSaveOriginalOK(f, UploadSize, ImageBytes, t)
    \/ UploadCreateOK
    \/ UploadPublishOK

WorkerReliable(w) ==
    \/ \E m \in queue : ConsumerFetch(w, m)
    \/ FindByIDOK(w)
    \/ UpdateProcessingOK(w)
    \/ GetOriginalOK(w)
    \/ TransformOK(w)
    \/ SaveProcessedOK(w)
    \/ UpdateCompletedOK(w)
    \/ CommitOK(w)

GetNext ==
    \/ \E id \in Ids, useOriginal \in BOOLEAN : GetFindOK(id, useOriginal)
    \/ \E id \in Ids, useOriginal \in BOOLEAN : GetFindFail(id, useOriginal)
    \/ \E fault \in BOOLEAN : GetOriginalFile(fault)
    \/ GetNotProcessed
    \/ \E fault \in BOOLEAN : GetProcessedFile(fault)

\* reliable ingestion, GetImageFile and one worker with every fault
NextGet ==
    \/ UploadReliable /\ nextId' <= MaxRaceImages
    \/ GetNext
    \/ WorkerNext("w1")

SpecGet == Init /\ [][NextGet]_vars

\* reliable ingestion and worker, GetImageFile racing one DeleteImage
NextGetDelete ==
    \/ UploadReliable /\ nextId' <= MaxRaceImages
    \/ GetNext
    \/ DeleteNext /\ del.pc # "done"
    \/ WorkerReliable("w1")

SpecGetDelete == Init /\ [][NextGetDelete]_vars

\* reliable ingestion and worker while time passes, and ListImages requests
\* with limits around both ends of [1,100]
SpecList ==
    /\ Init
    /\ [][\/ UploadReliable
          \/ WorkerReliable("w1")
          \/ Tick
          \/ \E limit \in {-1, 0, 1, 2, 100, 101}, offset \in {0, 1},
                fail \in BOOLEAN : ListImages(limit, offset, fail)]_vars

\* resize and thumbnail on images smaller than, equal to and larger than the
\* box, with flat, tall and square boxes (0: a side left unconfigured)
SpecFit ==
    /\ Init
    /\ [][/\ call.fn = "none"
          /\ \E fn \in {ProcessingResize, ProcessingThumbnail},
                inW, inH \in {1, 2, 3, 7, 150, 199, 200, 201, 600, 601, 800, 1000, 4000},
                boxW, boxH \in {0, 1, 2, 150, 200, 600, 800} :
                   FitCall(fn, inW, inH, boxW, boxH)]_vars

\* main of the worker process after <-ctx.Done(): the 30 s timer of
\* shutdownCtx expires, the database is closed and main returns; nothing
\* joins the goroutine that runs Consumer.Start
MainExit(w) ==
    /\ consumer[w].ctxDone
    /\ ~consumer[w].exited
    /\ consumer' = [consumer EXCEPT ![w].exited = TRUE]
    /\ UNCHANGED <<records, assets, queue, nextId, clock, up, del, get, wk, lst, call>>

\* ingestion, one worker process with its consumer goroutine, the signal and
\* the return of main, which ends every goroutine of the process
SpecShutdown ==
    /\ Init
    /\ [][\/ UploadReliable /\ nextId' <= MaxRaceImages
          \/ ConsumerNext("w1") /\ ~consumer["w1"].exited
          \/ Cancel("w1")
          \/ MainExit("w1")]_vars

\* one call of p.watermark with a watermark image of size wmW x wmH loaded,
\* whose scaled and rotated copy measures rotW x rotH
WatermarkCall(wmW, wmH, rotW, rotH, width, height) ==
    LET out == watermark([kind |-> "png", w |-> wmW, h |-> wmH],
                         <<rotW, rotH>>, width, height)
    IN /\ call.fn = "none"
       /\ call' = [fn |-> ProcessingWatermark, wmW |-> wmW, wmH |-> wmH,
                   rotW |-> rotW, rotH |-> rotH, width |-> width,
                   height |-> height, outW |-> out.w, outH |-> out.h,
                   overlays |-> out.overlays]
       /\ UNCHANGED <<records, assets, queue, nextId, clock, up, del, get, wk,
                      consumer, lst>>

\* tiling watermarks over small and large images with narrow and wide rotated
\* watermarks, and a watermark file of zero size
SpecWatermark ==
    /\ Init
    /\ [][/\ call.fn = "none"
          /\ \E wmW \in {0, 64}, rotW \in {1, 10, 14, 28, 60}, rotH \in {10, 28},
                width, height \in {1, 3, 4, 30, 40, 100, 300} :
                   WatermarkCall(wmW, 64, rotW, rotH, width, height)]_vars

\* reliable ingestion and worker, one DeleteImage, and one read of the first
\* image's original or thumbnail on either backend
SpecRead ==
    /\ Init
    /\ [][\/ UploadReliable /\ nextId' <= MaxRaceImages
          \/ WorkerReliable("w1")
          \/ DeleteNext /\ del.pc # "done"
          \/ \E backend \in {"local", "s3"},
                path \in {Join(originalDir, <<NewUUID(1), ".png">>),
                          Join(processedDir,
                               <<NewUUID(1), "_", ProcessingThumbnail, ".jpg">>)},
                fault \in {"none", "get", "stat"} :
                   ReadCall(backend, path, fault)]_vars

NextReliable ==
    \/ UploadReliable
    \/ WorkerReliable("w1")

SpecFair ==
    /\ Init
    /\ [][NextReliable]_vars
    /\ WF_vars(UploadReliable)
    /\ WF_vars(WorkerReliable("w1"))

\* reliable ingestion of one image and one worker with every fault. The
\* consumer loop keeps running, an uncommitted message is fetched again, and
\* no call to the metadata store or the asset store fails for ever
SpecRedeliver ==
    /\ Init
    /\ [][\/ UploadReliable /\ nextId' <= MaxRaceImages
          \/ WorkerNext("w1")]_vars
    /\ WF_vars(UploadReliable /\ nextId' <= MaxRaceImages)
    /\ WF_vars(WorkerNext("w1"))
    /\ SF_vars(FindByIDOK("w1"))
    /\ SF_vars(UpdateProcessingOK("w1"))
    /\ SF_vars(GetOriginalOK("w1"))
    /\ SF_vars(TransformOK("w1"))
    /\ SF_vars(SaveProcessedOK("w1"))
    /\ SF_vars(UpdateCompletedOK("w1"))
    /\ SF_vars(UpdateFailedOK("w1"))
    /\ SF_vars(CommitOK("w1"))

(******************************** properties ********************************)
HasOp(ops, name) == \E i \in 1..Len(ops) : ops[i] = name

LastOp(ops) == IF ops = << >> THEN "" ELSE ops[Len(ops)]

LastUpOp == IF up.ops = << >> THEN "" ELSE up.ops[Len(up.ops)][1]

TaskQueuedFor(id) == \E m \in queue : m.image_id = id

\* C1: in every persisted state, a record's processed_path is non-empty
\* exactly when its status is completed.
C1_ProcessedPathIffCompleted ==
    \A id \in DOMAIN records :
        (records[id].processed_path.Valid
            /\ records[id].processed_path.String # EmptyString)
        <=> records[id].status = StatusCompleted

\* a record is completed although another attempt on it has failed
C1_Witness ==
    \E id \in DOMAIN records :
        /\ records[id].status = StatusCompleted
        /\ records[id].processed_path.Valid
        /\ \E w \in Workers :
              wk[w].pc = "handled" /\ wk[w].image.Status = StatusFailed

\* C2: in every persisted state, a non-empty error_message implies status
\* failed, also after a failed record re-enters processing.
C2_ErrorMessageImpliesFailed ==
    \A id \in DOMAIN records :
        records[id].error_message.Valid => records[id].status = StatusFailed

\* C3: ProcessImage on a record loaded as completed or processing returns nil
\* having done nothing but the load: no metadata write, no storage read, no
\* storage write; record and asset store are unchanged.
C3_GuardedInvocationIsNoOp ==
    [][\A w \in Workers :
          (/\ wk[w].pc = "guard"
           /\ wk[w].image.Status \in {StatusCompleted, StatusProcessing}
           /\ wk'[w] # wk[w])
          => (/\ wk'[w].pc = "handled"
              /\ wk'[w].err = Nil
              /\ wk'[w].ops = <<"FindByID">>
              /\ records' = records
              /\ assets' = assets)]_vars

\* a redelivered task for a completed record was handled as a no-op
C3_Witness ==
    \E w \in Workers :
        /\ wk[w].pc = "handled"
        /\ wk[w].image.Status = StatusCompleted
        /\ wk[w].ops = <<"FindByID">>
        /\ wk[w].err = Nil
        /\ records[wk[w].task.image_id].status = StatusCompleted

AllowedTransitions ==
    {<<StatusPending, StatusProcessing>>, <<StatusFailed, StatusProcessing>>,
     <<StatusProcessing, StatusCompleted>>, <<StatusProcessing, StatusFailed>>}

\* C4: with a single worker every change of a persisted status is
\* pending->processing, failed->processing, processing->completed or
\* processing->failed, and completed or failed is written only by an attempt
\* that persisted processing before, over a persisted processing status.
C4_SingleWorkerTransitions ==
    [][/\ \A id \in DOMAIN records :
             (id \in DOMAIN records' /\ records'[id].status # records[id].status)
             => <<records[id].status, records'[id].status>> \in AllowedTransitions
       /\ \A w \in Workers :
             (/\ wk'[w].ops # wk[w].ops
              /\ LastOp(wk'[w].ops) \in {"UpdateCompleted", "UpdateFailed"})
             => (/\ HasOp(wk[w].ops, "UpdateProcessing")
                 /\ records[wk[w].task.image_id].status = StatusProcessing)]_vars

\* a failed record was retried: it is persisted as processing again
C4_Witness ==
    \E id \in DOMAIN records :
        /\ records[id].status = StatusProcessing
        /\ records[id].error_message.Valid
        /\ wk["w1"].pc = "getOriginal"

\* C5: once a record is persisted as completed, no step of any worker changes
\* its status, processed_path, width or height.
C5_CompletedIsTerminal ==
    [][\A id \in DOMAIN records :
          records[id].status = StatusCompleted
          => (/\ id \in DOMAIN records'
              /\ records'[id].status = StatusCompleted
              /\ records'[id].processed_path = records[id].processed_path
              /\ records'[id].width = records[id].width
              /\ records'[id].height = records[id].height)]_vars

\* C6: a stage failing after the processing transition always leads to the
\* failed write, and when that write succeeds ProcessImage returns an error
\* and the record is failed with an error_message and no processed_path.
C6_StageFailureMarksFailed ==
    [][\A w \in Workers :
          /\ (/\ wk[w].pc \in {"getOriginal", "transform", "saveProcessed"}
              /\ wk'[w].pc \notin {wk[w].pc, "transform", "saveProcessed",
                                    "updCompleted"})
             => (wk'[w].pc = "updFailed" /\ wk'[w].err # Nil)
          /\ (/\ wk[w].pc = "updFailed"
              /\ wk'[w].ops = Append(wk[w].ops, "UpdateFailed"))
             => (/\ wk'[w].pc = "handled"
                 /\ wk'[w].err # Nil
                 /\ wk[w].task.image_id \in DOMAIN records'
                 /\ records'[wk[w].task.image_id].status = StatusFailed
                 /\ records'[wk[w].task.image_id].error_message.Valid
                 /\ records'[wk[w].task.image_id].error_message.String # EmptyString
                 /\ ~records'[wk[w].task.image_id].processed_path.Valid)]_vars

\* an attempt failed at the decode stage and persisted the failure
C6_Witness ==
    \E w \in Workers :
        /\ wk[w].pc = "handled"
        /\ LastOp(wk[w].ops) = "UpdateFailed"
        /\ wk[w].err = Wrap("decode original image", <<"image: unknown format">>)
        /\ records[wk[w].task.image_id].status = StatusFailed
        /\ records[wk[w].task.image_id].error_message.Valid

ExpectedProcessedPath(id) ==
    <<processedDir, "/", id, "_", records[id].processing_type, ".jpg">>

Completed(id) ==
    /\ id \in DOMAIN records
    /\ records[id].status = StatusCompleted
    /\ records[id].processed_path.Valid
    /\ records[id].processed_path.String = ExpectedProcessedPath(id)

\* C7: when nothing fails and one worker consumes the queue fairly, every
\* uploaded image's record eventually is completed with processed_path
\* {id}_{processing_type}.jpg, and it becomes completed from processing only.
C7_EventuallyCompleted ==
    /\ \A id \in Ids : (id \in DOMAIN records) ~> Completed(id)
    /\ [][\A id \in DOMAIN records :
             (records'[id].status = StatusCompleted
                 /\ records[id].status # StatusCompleted)
             => records[id].status = StatusProcessing]_vars

\* every upload of the run was completed and its task committed
C7_Witness ==
    /\ DOMAIN records = Ids
    /\ \A id \in Ids : Completed(id)
    /\ queue = {}

\* C8: when SaveOriginal fails UploadImage returns StorageFailed, no record
\* is created and no task is published.
C8_SaveFailureReturnsStorageFailed ==
    (up.pc = "done" /\ Len(up.ops) = 1)
    => (/\ ErrorsIs(up.err, ErrStorageFailed)
        /\ up.id \notin DOMAIN records
        /\ ~TaskQueuedFor(up.id))

\* C9: when the insert fails UploadImage calls Delete on exactly the path it
\* has just written, returns the insert error, publishes nothing, and once
\* that delete succeeded neither record nor original exists for the id.
C9_InsertFailureCompensates ==
    (up.pc = "done" /\ HasOp(up.ops, <<"CreateFailed", <<up.id>> >>))
    => (/\ Len(up.ops) = 3
        /\ up.ops[1][1] = "SaveOriginal"
        /\ up.ops[3][1] \in {"Delete", "DeleteFailed"}
        /\ up.ops[3][2] = up.ops[1][2]
        /\ ErrorsIs(up.err, ErrDB)
        /\ up.image = ZeroImage
        /\ ~TaskQueuedFor(up.id)
        /\ up.id \notin DOMAIN records
        /\ up.ops[3][1] = "Delete" => up.ops[1][2] \notin DOMAIN assets)

\* the insert failed and the compensating delete removed the original
C9_Witness ==
    /\ up.pc = "done"
    /\ Len(up.ops) = 3
    /\ up.ops[2][1] = "CreateFailed"
    /\ up.ops[3][1] = "Delete"
    /\ up.ops[1][2] \notin DOMAIN assets

\* C10: when the publish fails UploadImage returns the persisted record and
\* no error, the record stays pending and the original stays stored.
C10_PublishFailureNotSurfaced ==
    (up.pc = "done" /\ LastUpOp = "PublishFailed")
    => (/\ up.err = Nil
        /\ up.image.ID = up.id
        /\ up.id \in DOMAIN records
        /\ records[up.id] = RowOf(up.image)
        /\ records[up.id].status = StatusPending
        /\ up.image.OriginalPath \in DOMAIN assets
        /\ ~TaskQueuedFor(up.id))

\* an upload returned after its publish failed
C10_Witness ==
    /\ up.pc = "done"
    /\ LastUpOp = "PublishFailed"
    /\ up.err = Nil
    /\ up.id \in DOMAIN records

\* C11: an upload request whose declared size exceeds the configured maximum
\* is answered file_too_large by a step that calls nothing of UploadImage and
\* changes no record, no asset and no queued task.
C11_OversizedUploadRejected ==
    [][(up' # up /\ up'.size > maxUploadSize)
       => (/\ up'.pc = "done"
           /\ up'.rejected = "file_too_large"
           /\ up'.ops = << >>
           /\ up'.image = ZeroImage
           /\ records' = records /\ assets' = assets /\ queue' = queue
           /\ nextId' = nextId)]_vars

\* an oversized request was rejected while an earlier upload is stored
C11_Witness ==
    /\ up.pc = "done"
    /\ up.size = maxUploadSize + 1
    /\ up.rejected = "file_too_large"
    /\ records # EmptyMap
    /\ assets # EmptyMap

\* C12: a message leaves the uncommitted set only by the commit of a worker
\* whose handler returned nil for that very message; a worker whose handler
\* returned an error leaves the message uncommitted and is back at the top
\* of the loop.
C12_CommitOnlyAfterSuccess ==
    [][/\ \A m \in queue \ queue' :
             \E w \in Workers : /\ wk[w].pc = "handled"
                                /\ wk[w].err = Nil
                                /\ wk[w].task = m
                                /\ wk'[w].pc = "idle"
       /\ \A w \in Workers :
             (wk[w].pc = "handled" /\ wk[w].err # Nil /\ wk'[w] # wk[w])
             => (queue' = queue /\ wk'[w].pc = "idle")]_vars

\* the only message of an image was handled with an error and is still
\* uncommitted while the loop is at its next iteration
C12_Witness ==
    /\ wk["w1"].pc = "idle"
    /\ \E id \in DOMAIN records :
          /\ records[id].status = StatusFailed
          /\ queue = {TaskOf(id, records[id].processing_type)}

\* C13: the handler never runs on a message that did not deserialize or has
\* an empty image_id or processing_type; the step that drops such a message
\* changes no record, no asset and no queue entry and leaves the loop at the
\* top of its next iteration.
C13_MalformedDropped ==
    /\ [](\A w \in Workers :
            wk[w].pc \notin {"idle", "stopped"}
            => (/\ wk[w].task \in queue
                /\ wk[w].task.image_id # ""
                /\ wk[w].task.processing_type # ""))
    /\ [][\A w \in Workers :
            consumer'[w].dropped # consumer[w].dropped
            => (/\ \/ "raw" \in DOMAIN consumer'[w].dropped
                   \/ consumer'[w].dropped.image_id = ""
                   \/ consumer'[w].dropped.processing_type = ""
                /\ wk[w].pc = "idle"
                /\ wk'[w] = WkIdle
                /\ records' = records
                /\ assets' = assets
                /\ queue' = queue)]_vars

\* after dropping a message the loop went on and completed another task
C13_Witness ==
    /\ consumer["w1"].dropped # NoTask
    /\ wk["w1"].pc = "handled"
    /\ wk["w1"].err = Nil
    /\ HasOp(wk["w1"].ops, "UpdateCompleted")

\* C14: once the context is cancelled the loop eventually returns nil; it
\* starts no further handler invocation from the top of the loop, it returns
\* only from the top of the loop (never out of a running handler), and
\* having returned it does nothing more.
C14_CancellationStopsLoop ==
    /\ \A w \in Workers :
          consumer[w].ctxDone ~> (wk[w].pc = "stopped" /\ wk[w].err = Nil)
    /\ [][\A w \in Workers :
            /\ (consumer[w].ctxDone /\ wk[w].pc = "idle")
               => wk'[w].pc \in {"idle", "stopped"}
            /\ (wk'[w].pc = "stopped" /\ wk[w].pc # "stopped")
               => (wk[w].pc = "idle" /\ consumer[w].ctxDone)
            /\ wk[w].pc = "stopped" => wk'[w] = wk[w]]_vars

\* the loop has returned while a task for a pending record is still queued
C14_Witness ==
    /\ consumer["w1"].ctxDone
    /\ wk["w1"].pc = "stopped"
    /\ \E id \in DOMAIN records :
          /\ records[id].status = StatusPending
          /\ TaskOf(id, records[id].processing_type) \in queue

\* C15: when the task carries a valid processing_type other than the
\* record's, the output dimensions are those of the record's transformation
\* and the processed asset is saved under the record's type.
C15_RecordTypeWins ==
    \A w \in Workers :
        (/\ wk[w].pc \in {"updCompleted", "handled"}
         /\ HasOp(wk[w].ops, "SaveProcessed")
         /\ wk[w].err = Nil
         /\ wk[w].task.processing_type \in ProcessingTypes
         /\ wk[w].task.processing_type # wk[w].image.ProcessingType)
        => (/\ <<wk[w].width, wk[w].height>>
                  = Process(wk[w].file, wk[w].image.ProcessingType)
            /\ Join(processedDir, <<wk[w].image.ID, "_",
                                    wk[w].image.ProcessingType, ".jpg">>)
                  \in DOMAIN assets
            /\ Join(processedDir, <<wk[w].image.ID, "_",
                                    wk[w].task.processing_type, ".jpg">>)
                  \notin DOMAIN assets)

\* a task asking for resize completed a record uploaded for another type
C15_Witness ==
    /\ wk["w1"].pc = "handled"
    /\ wk["w1"].err = Nil
    /\ wk["w1"].task.processing_type = ProcessingResize
    /\ wk["w1"].image.Status = StatusCompleted
    /\ wk["w1"].image.ProcessingType # ProcessingResize

\* C16: every asset in the processed namespace is named
\* {image_id}_{processing_type}.jpg after a record, whatever the extension
\* of the original, and a completed record's processed_path is the relative
\* path processed/{id}_{type}.jpg under which that asset is stored.
C16_ProcessedNameDeterministic ==
    /\ \A p \in DOMAIN assets :
          p[1] = processedDir
          => \E id \in DOMAIN records :
                p = <<processedDir, "/", id, "_",
                      records[id].processing_type, ".jpg">>
    /\ \A id \in DOMAIN records :
          records[id].status = StatusCompleted
          => (/\ records[id].processed_path.Valid
              /\ records[id].processed_path.String
                    = <<processedDir, "/", id, "_",
                        records[id].processing_type, ".jpg">>
              /\ records[id].processed_path.String \in DOMAIN assets)

\* a record uploaded under a name without extension is completed
C16_Witness ==
    \E id \in DOMAIN records :
        /\ records[id].status = StatusCompleted
        /\ records[id].original_filename = <<"scan">>
        /\ records[id].processing_type = ProcessingResize
        /\ records[id].processed_path.String \in DOMAIN assets

\* C17: GetImageFile(id, useOriginal = FALSE) that loaded a pending,
\* processing or failed record returns the error "image not processed yet",
\* which is not ErrImageNotFound, returns no stream, and has called nothing
\* but FindByID.
C17_NotProcessedYet ==
    (/\ get.pc = "done"
     /\ ~get.useOriginal
     /\ get.image.Status \in {StatusPending, StatusProcessing, StatusFailed})
    => (/\ get.err = <<"image not processed yet">>
        /\ ~ErrorsIs(get.err, ErrImageNotFound)
        /\ get.file = NilFile
        /\ get.ops = <<"FindByID">>)

\* the processed file of a failed record was requested
C17_Witness ==
    /\ get.pc = "done"
    /\ ~get.useOriginal
    /\ get.image.Status = StatusFailed
    /\ get.err = <<"image not processed yet">>

\* C18: GetImageFile(id, useOriginal = TRUE) that loaded a record returns
\* ErrImageNotFound when the original object is missing, a non-nil error
\* other than ErrImageNotFound when the fetch fails otherwise, and never a
\* nil stream together with a nil error.
C18_OriginalFetchErrors ==
    (get.pc = "done" /\ get.useOriginal /\ Len(get.ops) = 2)
    => (/\ get.ops[2] = "GetOriginalMissing"
           => ErrorsIs(get.err, ErrImageNotFound)
        /\ get.ops[2] = "GetOriginalFailed"
           => (get.err # Nil /\ ~ErrorsIs(get.err, ErrImageNotFound))
        /\ ~(get.file = NilFile /\ get.err = Nil))

\* C19: a DeleteImage request for an id without record ends at once with
\* ErrImageNotFound and changes no asset; a request repeating a successful
\* delete ends with ErrImageNotFound; deleting asset paths that do not
\* exist leaves the store as it is and reports no error.
C19_DeleteMissingIsNotFound ==
    /\ [](del.pc = "done" /\ del.err = Nil => del.id \notin DOMAIN records)
    /\ [][
          /\ (del.pc \in {"idle", "done"} /\ del' # del
              /\ del'.id \notin DOMAIN records)
             => (/\ del'.pc = "done"
                 /\ del'.err = ErrImageNotFound
                 /\ del'.ops = <<"FindByID">>
                 /\ assets' = assets)
          /\ (del.pc = "done" /\ del.err = Nil /\ del' # del
              /\ del'.id = del.id)
             => (del'.pc = "done" /\ del'.err = ErrImageNotFound)
          /\ (del.pc = "deleteAll" /\ del' # del
              /\ del.image.OriginalPath \notin DOMAIN assets
              /\ del.image.ProcessedPath \notin DOMAIN assets)
             => (/\ assets' = assets
                 /\ \A f1 \in BOOLEAN, f2 \in BOOLEAN :
                       DeleteAllErr(assets, del.image.OriginalPath,
                                    del.image.ProcessedPath, f1, f2) = Nil)
       ]_vars

\* the id of a stored upload has no record any more and a further
\* DeleteImage for it returned ErrImageNotFound
C19_Witness ==
    /\ up.pc = "done" /\ up.err = Nil
    /\ del.pc = "done"
    /\ del.id = up.id
    /\ del.err = ErrImageNotFound
    /\ del.ops = <<"FindByID">>
    /\ up.id \notin DOMAIN records

\* C20: DeleteImage always goes on from the asset deletion to the metadata
\* delete without an error, whether or not an asset deletion failed, and
\* when the metadata delete succeeds it returns nil and the record is gone.
C20_AssetFailureDoesNotAbort ==
    [][/\ (del.pc = "deleteAll" /\ del' # del)
          => (/\ del'.pc = "repoDelete"
              /\ del'.err = Nil
              /\ records' = records)
       /\ (del.pc = "repoDelete" /\ del' # del /\ records' # records)
          => (/\ del'.pc = "done"
              /\ del'.err = Nil
              /\ del.id \in DOMAIN records
              /\ del.id \notin DOMAIN records')]_vars

\* DeleteImage returned nil and the record is gone although the original
\* could not be deleted
C20_Witness ==
    /\ del.pc = "done"
    /\ del.err = Nil
    /\ del.id \notin DOMAIN records
    /\ del.image.OriginalPath \in DOMAIN assets

(* C21: ListImages hands the metadata store a limit within [1,100]: 10 for *)
(* a non-positive request, 100 for a request above 100, the request itself *)
(* otherwise; the images returned are in order of creation time, the most  *)
(* recent first, and are no more than that limit.                          *)
C21_ListLimitClamped ==
    lst.pc = "done" =>
        /\ lst.effLimit \in 1..100
        /\ lst.limit <= 0 => lst.effLimit = 10
        /\ lst.limit > 100 => lst.effLimit = 100
        /\ lst.limit \in 1..100 => lst.effLimit = lst.limit
        /\ Len(lst.images) <= lst.effLimit
        /\ \A i, j \in 1..Len(lst.images) :
              i < j => lst.images[i].CreatedAt >= lst.images[j].CreatedAt

\* a request for more than 100 images returned two images created at
\* different times
C21_Witness ==
    /\ lst.pc = "done"
    /\ lst.err = Nil
    /\ lst.limit > 100
    /\ Len(lst.images) = 2
    /\ lst.images[1].CreatedAt > lst.images[2].CreatedAt

(* C22: for a decoded image of positive size and a configured box of       *)
(* positive size, the output of resize and of thumbnail fits the box in    *)
(* both dimensions, its larger side is at most the larger side of the box, *)
(* and one of its sides is within one pixel of the value the input's       *)
(* aspect ratio gives for the other side.                                  *)
C22_FitWithinBoxKeepsAspect ==
    (call.fn \in {ProcessingResize, ProcessingThumbnail}
        /\ call.boxW > 0 /\ call.boxH > 0) =>
        LET d == call.outH * call.inW - call.outW * call.inH
        IN /\ call.outW \in 1..call.boxW
           /\ call.outH \in 1..call.boxH
           /\ Max(call.outW, call.outH) <= Max(call.boxW, call.boxH)
           /\ \/ d <= call.inW /\ -d <= call.inW
              \/ d <= call.inH /\ -d <= call.inH

\* a thumbnail scaled down to the box width whose height had to be rounded
C22_Witness ==
    /\ call.fn = ProcessingThumbnail
    /\ call.boxW > 0 /\ call.boxH > 0
    /\ call.inW > call.boxW
    /\ call.outW = call.boxW
    /\ call.outH < call.boxH
    /\ call.outH * call.inW # call.outW * call.inH

C24_DeleteAllReturnsFirstError ==
    [][(del.pc = "deleteAll" /\ del'.pc # "deleteAll") =>
          LET o == del.image.OriginalPath
              p == del.image.ProcessedPath
              oFailed == o \in DOMAIN assets /\ o \in DOMAIN assets'
              pFailed == p \in DOMAIN assets /\ p \in DOMAIN assets'
          IN /\ oFailed => del'.logged = storageDeleteErr(assets, o, TRUE)
             /\ (~oFailed /\ pFailed) => del'.logged = storageDeleteErr(assets, p, TRUE)
             /\ (~oFailed /\ ~pFailed) => del'.logged = Nil
      ]_vars

(* C25: on the local-disk and on the object-storage backend alike, reading *)
(* a missing object fails with an error that is the storage NotFound       *)
(* error, and a failed read of an object that is present fails with an     *)
(* error that is not.                                                      *)
C25_BackendsAgreeOnReadErrors ==
    call.fn = "read" =>
        /\ ~call.present => ErrorsIs(call.err, ErrObjectNotFound)
        /\ (call.present /\ call.fault # "none") =>
              call.err # Nil /\ ~ErrorsIs(call.err, ErrObjectNotFound)
        /\ (call.present /\ call.fault = "none") => call.err = Nil

(* C26: a record's id, original_filename, original_path, mime_type, size   *)
(* and processing_type never change while the record exists: no metadata   *)
(* write of ProcessImage, successful or failed, by either worker, alters   *)
(* what UploadImage stored.                                                *)
C26_IdentityFieldsFrozen ==
    [][\A id \in DOMAIN records \cap DOMAIN records' :
          /\ records'[id].id = id
          /\ records'[id].original_filename = records[id].original_filename
          /\ records'[id].original_path = records[id].original_path
          /\ records'[id].mime_type = records[id].mime_type
          /\ records'[id].size = records[id].size
          /\ records'[id].processing_type = records[id].processing_type
      ]_vars

\* a worker persisted failed for a record that still has the fields of its
\* upload
C26_Witness ==
    \E w \in Workers :
        /\ LastOp(wk[w].ops) = "UpdateFailed"
        /\ wk[w].image.ID \in DOMAIN records
        /\ records[wk[w].image.ID].status = StatusFailed
        /\ records[wk[w].image.ID].original_path
              = Join(originalDir, uniqueFilename(wk[w].image.ID,
                                                 records[wk[w].image.ID].original_filename))
        /\ records[wk[w].image.ID].size = UploadSize

(* C27: in every persisted state a record has a width and a height (both   *)
(* columns non-NULL and positive) exactly when its status is completed;    *)
(* in every other status both columns are NULL.                            *)
C27_DimensionsIffCompleted ==
    \A id \in DOMAIN records :
        IF records[id].status = StatusCompleted
        THEN /\ records[id].width.Valid /\ records[id].width.Int32 > 0
             /\ records[id].height.Valid /\ records[id].height.Int32 > 0
        ELSE /\ ~records[id].width.Valid
             /\ ~records[id].height.Valid

\* a completed thumbnail record with the dimensions of the thumbnail
C27_Witness ==
    \E id \in DOMAIN records :
        /\ records[id].processing_type = ProcessingThumbnail
        /\ records[id].status = StatusCompleted
        /\ records[id].width = [Valid |-> TRUE, Int32 |-> 150]
        /\ records[id].height = [Valid |-> TRUE, Int32 |-> 150]

(* C28: processed_at is NULL until a write of completed sets it, and once  *)
(* it is set no later write, by any worker, changes or clears it.          *)
C28_ProcessedAtSetOnce ==
    [][\A id \in DOMAIN records \cap DOMAIN records' :
          /\ records[id].processed_at.Valid =>
                records'[id].processed_at = records[id].processed_at
          /\ (~records[id].processed_at.Valid /\ records'[id].processed_at.Valid) =>
                records'[id].status = StatusCompleted
      ]_vars

(* C29: nothing stops a second worker: a worker that has loaded a pending  *)
(* or failed snapshot can persist processing for as long as the row        *)
(* exists, whatever status another worker has persisted meanwhile; so two  *)
(* workers handling the same task can both pass the guard, both persist    *)
(* processing, both transform and both write the processed asset.          *)
C29_NothingPreventsDuplicateProcessing ==
    \A w \in Workers :
        (wk[w].pc = "guard" /\ CanBeProcessed(wk[w].image)
            /\ wk[w].image.ID \in DOMAIN records) =>
            ENABLED UpdateProcessingOK(w)

\* both workers, on the same image, have passed the guard, persisted
\* processing, read the original and written the processed asset
C29_Witness ==
    /\ wk["w1"].image.ID = wk["w2"].image.ID
    /\ \A w \in Workers :
          /\ wk[w].pc = "updCompleted"
          /\ wk[w].ops = <<"FindByID", "UpdateProcessing", "GetOriginal",
                           "SaveProcessed">>
          /\ wk[w].image.Status = StatusProcessing
    /\ Join(processedDir, processedFilename(wk["w1"].image)) \in DOMAIN assets

(* C30: when the write of processing fails, ProcessImage returns a         *)
(* non-nil error at once: that step changes no record and no asset, the    *)
(* record still has the pending or failed status the worker read, the      *)
(* worker makes no further call for this message, and the message stays    *)
(* in the queue when the worker moves on.                                  *)
C30_ProcessingWriteFailureIsFatal ==
    [][\A w \in Workers :
          /\ (wk[w].pc = "guard" /\ wk'[w].ops # wk[w].ops
                 /\ LastOp(wk'[w].ops) = "UpdateProcessingFailed") =>
                /\ wk'[w].pc = "handled"
                /\ wk'[w].err # Nil
                /\ Head(wk'[w].err) = "update status to processing"
                /\ wk'[w].ops = <<"FindByID", "UpdateProcessingFailed">>
                /\ records' = records
                /\ assets' = assets
                /\ wk[w].image.ID \in DOMAIN records =>
                      records'[wk[w].image.ID].status
                         \in {StatusPending, StatusFailed}
          /\ (LastOp(wk[w].ops) = "UpdateProcessingFailed" /\ wk'[w] # wk[w]) =>
                /\ wk'[w] = WkIdle
                /\ queue' = queue
                /\ records' = records
                /\ assets' = assets
      ]_vars

\* the retry of a failed record could not persist processing: the handler
\* has returned the error, the record is still failed, the task still queued
C30_Witness ==
    /\ wk["w1"].pc = "handled"
    /\ wk["w1"].ops = <<"FindByID", "UpdateProcessingFailed">>
    /\ wk["w1"].err # Nil
    /\ wk["w1"].task \in queue
    /\ wk["w1"].image.ID \in DOMAIN records
    /\ records[wk["w1"].image.ID].status = StatusFailed

(* C31: a processor built from a configuration whose box has a             *)
(* non-positive width or height returns the image at its own size from     *)
(* resize and from thumbnail.                                              *)
C31_UnconfiguredBoxReturnsOriginal ==
    (call.fn \in {ProcessingResize, ProcessingThumbnail}
        /\ (call.boxW <= 0 \/ call.boxH <= 0)) =>
        /\ call.outW = call.inW
        /\ call.outH = call.inH

(* C32: for every input image and positive box, the output of resize and   *)
(* of thumbnail touches the box, that is its width equals the box width or *)
(* its height equals the box height, and it does not exceed the box; this  *)
(* holds for inputs smaller than the box in both dimensions too.           *)
C32_ResultTouchesBox ==
    (call.fn \in {ProcessingResize, ProcessingThumbnail}
        /\ call.boxW > 0 /\ call.boxH > 0) =>
        /\ call.outW = call.boxW \/ call.outH = call.boxH
        /\ call.outW <= call.boxW
        /\ call.outH <= call.boxH

(* C33: tiling a watermark whose rotated copy is rotW wide over a width x   *)
(* height image uses diag = floor(hypot(width, height)) + rotW, step =     *)
(* rotW/2 + 20 (at least 10) and count = diag/step + 2, and composites the *)
(* watermark once for each i in 0..count, from (-rotW, -rotH) at i = 0 to  *)
(* (width, height) at i = count.                                           *)
C33_TilingCountAndEnds ==
    (call.fn = ProcessingWatermark /\ call.wmW # 0 /\ call.wmH # 0) =>
        LET sq == call.width * call.width + call.height * call.height
            hyp == CHOOSE n \in 0..sq : n * n <= sq /\ (n + 1) * (n + 1) > sq
            diag == hyp + call.rotW
            step == Max(10, call.rotW \div 2 + 20)
            count == diag \div step + 2
        IN /\ Len(call.overlays) = count + 1
           /\ call.overlays[1] = <<-call.rotW, -call.rotH>>
           /\ call.overlays[Len(call.overlays)] = <<call.width, call.height>>

(* C34: a task with a non-empty image_id whose processing_type is none of  *)
(* resize, thumbnail, watermark makes the handler return an error without  *)
(* calling ProcessImage: the worker holding such a task has touched no     *)
(* store and holds an error, and none of its steps changes a record, an    *)
(* asset or the queue (the message is not committed).                      *)
C34_InvalidTypeRejectedUnprocessed ==
    [][\A w \in Workers :
          LET Invalid(t) == /\ t.image_id # ""
                            /\ t.processing_type # ""
                            /\ t.processing_type \notin ProcessingTypes
          IN /\ (wk'[w] # wk[w] /\ (Invalid(wk[w].task) \/ Invalid(wk'[w].task))) =>
                   /\ records' = records
                   /\ assets' = assets
                   /\ queue' = queue
             /\ Invalid(wk'[w].task) =>
                   /\ wk'[w].pc = "handled"
                   /\ wk'[w].ops = << >>
                   /\ wk'[w].err # Nil]_vars

\* the message with an unknown type is back on the loop's hands after a
\* rejection, the image's record untouched and the message still queued
C34_Witness ==
    /\ wk["w1"].pc = "handled"
    /\ wk["w1"].task = TaskOf(NewUUID(1), "grayscale")
    /\ wk["w1"].err # Nil
    /\ wk["w1"].task \in queue
    /\ NewUUID(1) \in DOMAIN records
    /\ records[NewUUID(1)].status = "pending"

(* C35: when the worker process closes the metadata store and exits on     *)
(* shutdown, no message is still being handled: the handler of a message   *)
(* that was in progress at the signal has returned, the consumer loop is   *)
(* between messages or has returned.                                       *)
C35_ExitAfterHandlerReturned ==
    \A w \in Workers :
        consumer[w].exited => wk[w].pc \in {"idle", "stopped"}

(* C36: a task is published only after the original was stored and the    *)
(* pending record inserted: while no DeleteImage runs, every task in the   *)
(* queue names an existing record whose original asset can be read, and no *)
(* worker handling such a task holds a not-found error.                    *)
C36_PublishedTaskHasRecordAndOriginal ==
    \A m \in queue :
        /\ m.image_id \in DOMAIN records
        /\ getFileErr(assets, records[m.image_id].original_path, FALSE) = Nil
        /\ \A w \in Workers :
              wk[w].task = m =>
                 /\ ~ErrorsIs(wk[w].err, ErrImageNotFound)
                 /\ ~ErrorsIs(wk[w].err, <<"file not found: ">>)

\* a worker has loaded the record of a queued task and read its original
C36_Witness ==
    \E w \in Workers :
        /\ wk[w].task \in queue
        /\ HasOp(wk[w].ops, "FindByID")
        /\ HasOp(wk[w].ops, "GetOriginal")
        /\ wk[w].err = Nil
        /\ up.pc = "done"

(* C37: no record stays in status processing for ever: when the terminal   *)
(* write of an attempt failed, the uncommitted task is delivered again and *)
(* the stores work again, the record eventually is completed or failed.    *)
C37_ProcessingEventuallyTerminal ==
    \A id \in Ids :
        (id \in DOMAIN records /\ records[id].status = StatusProcessing)
            ~> (id \in DOMAIN records
                  /\ records[id].status \in {StatusCompleted, StatusFailed})

(* C38: once DeleteImage(id) has returned success, having removed the      *)
(* assets it found without error, neither the original nor the processed   *)
(* asset of id is in the asset store, also when a worker was processing id *)
(* while it was deleted.                                                   *)
C38_NoAssetAfterDelete ==
    (del.pc = "done" /\ del.err = Nil /\ del.logged = Nil
        /\ HasOp(del.ops, "Delete")) =>
        /\ del.image.OriginalPath \notin DOMAIN assets
        /\ Join(processedDir, processedFilename(del.image)) \notin DOMAIN assets

(* C39: a save that returns an error leaves nothing at its target path: an *)
(* UploadImage aborted by a storage failure, the zero-bytes case and a     *)
(* write error during the copy included, leaves no original behind.        *)
C39_FailedSaveLeavesNoAsset ==
    (up.pc = "done" /\ ErrorsIs(up.err, <<"save original">>)) =>
        up.ops[1][2] \notin DOMAIN assets

(* C40: whenever a record's persisted status is completed, the asset at    *)
(* its processed_path is in the asset store, in every state, those in the  *)
(* middle of a DeleteImage of that image included.                         *)
C40_CompletedHasProcessedAsset ==
    \A id \in DOMAIN records :
        records[id].status = StatusCompleted =>
            /\ records[id].processed_path.Valid
            /\ records[id].processed_path.String \in DOMAIN assets

====
